---- MODULE Spec2Model ----
(***************************************************************************)
(* Client-side state machines of the FloatChat dashboard:                  *)
(*   - DataExport (components/DataExport.tsx): handleExport and the        *)
(*     asynchronous progress simulation simulateExport;                    *)
(*   - RealTimeUpdates: the WebSocket feed client (connectWebSocket, the   *)
(*     socket handlers, handleRealtimeUpdate, the effect cleanup).         *)
(* JavaScript runs handlers to completion on one thread: every action is   *)
(* one handler or one continuation of an async function.                   *)
(***************************************************************************)
EXTENDS Integers, Sequences, FiniteSets, TLC

VARIABLES
    now,                 \* last value read from the wall clock (Date.now(), new Date())
    toast,               \* last notification handed to react-hot-toast
    isOpen,              \* DataExport: useState(false)
    selectedFormat,      \* DataExport: useState('csv')
    selectedParameters,  \* DataExport: useState(['temperature','salinity'])
    timeRange,           \* DataExport: useState('7d')
    region,              \* DataExport: useState('global')
    exportRequests,      \* DataExport: useState<ExportRequest[]>([])
    isExporting,         \* DataExport: useState(false)
    sims,                \* the running simulateExport calls, in the order they were started
    timers,              \* the calls whose setTimeout(resolve, 500) is pending, in firing order
    isConnected,         \* RealTimeUpdates: useState(true)
    updates,             \* RealTimeUpdates: useState<UpdateData[]>([])
    lastUpdate,          \* RealTimeUpdates: useState<Date>(new Date())
    stats,               \* RealTimeUpdates: useState({ totalFloats, activeFloats, dataPoints, lastSync })
    wsRef,               \* RealTimeUpdates: useRef<WebSocket | null>(null)
    reconnectTimeoutRef, \* RealTimeUpdates: useRef<NodeJS.Timeout | null>(null)
    mounted,             \* RealTimeUpdates: useState(false), set by the effects after the first render
    unmounted,           \* React has run the cleanup of the effect
    sockets,             \* the WebSocket objects constructed so far, by their readyState
    reconnectTimers,     \* the handles of the pending setTimeout(..., 5000) calls
    timersSet,           \* the number of setTimeout(..., 5000) calls made (the next handle)
    wsBlocked,           \* the browser refuses new WebSocket(url) on this page (it throws)
    consoleError,        \* the last message given to console.error by RealTimeUpdates
    uncaught,            \* an exception has left a handler of RealTimeUpdates
    chartProps,          \* DataChart: the props { type, timeRange } of the last render
    chartData,           \* DataChart: useState<ChartData[]>([]) (data)
    chartIsLoading,      \* DataChart: useState(true) (isLoading)
    fetches,             \* DataChart: the fetchSeries calls made, one per run of the effect
    messages,            \* ChatInterface: useState<Message[]>([greeting])
    input,               \* ChatInterface: useState('')
    isLoading,           \* ChatInterface: useState(false)
    isTyping,            \* ChatInterface: useState(false)
    chatRequests,        \* ChatInterface: the handleSendMessage calls that passed the guard
    selectedParameter,   \* DataVisualization: useState('temperature')
    isPlaying,           \* DataVisualization: useState(false)
    playTimerRef,        \* DataVisualization: useRef<NodeJS.Timeout | null>(null)
    intervals,           \* DataVisualization: the handles of the active setInterval(cycleFn, 3000)
    intervalsSet         \* DataVisualization: the number of setInterval calls made

exportVars == <<isOpen, selectedFormat, selectedParameters, timeRange, region,
                exportRequests, isExporting, sims, timers>>

feedVars == <<isConnected, updates, lastUpdate, stats, wsRef, reconnectTimeoutRef,
              mounted, unmounted, sockets, reconnectTimers, timersSet, wsBlocked,
              consoleError, uncaught>>

chartVars == <<chartProps, chartData, chartIsLoading, fetches>>

chatVars == <<messages, input, isLoading, isTyping, chatRequests>>

playVars == <<selectedParameter, isPlaying, playTimerRef, intervals, intervalsSet>>

\* the state of the components other than DataExport and RealTimeUpdates
pageVars == <<chartVars, chatVars, playVars>>

vars == <<now, toast, exportVars, feedVars, pageVars>>

(***************************************************************************)
(* Bounds of the exploration.                                              *)
(***************************************************************************)
\* accepted submissions explored while the selection stays as constructed
MaxRequests == 2
\* accepted submissions explored while the selection is edited
MaxDialogRequests == 1

(***************************************************************************)
(* Helpers.                                                                *)
(***************************************************************************)
Max(a, b) == IF a >= b THEN a ELSE b

\* Array.prototype.includes
Includes(arr, x) == \E i \in 1..Len(arr) : arr[i] = x

\* Array.prototype.filter(p => p # x)
RECURSIVE FilterOut(_, _)
FilterOut(arr, x) ==
    IF Len(arr) = 0 THEN <<>>
    ELSE IF Head(arr) = x THEN FilterOut(Tail(arr), x)
         ELSE <<Head(arr)>> \o FilterOut(Tail(arr), x)

\* a value an optional number field (completedAt?, fileSize?) has while it is absent
AbsentNumber == -1
\* a value an optional string field (downloadUrl?) has while it is absent
AbsentString == "undefined"

\* a reading of the wall clock: the clock never runs backwards, and two readings
\* may fall into the same millisecond
ClockReadings == {now, now + 1}

(***************************************************************************)
(* DataExport                                                              *)
(***************************************************************************)
\* the ids of the parameter buttons offered by the dialog (two of the six)
ParameterIds == {"temperature", "salinity"}

\* react-hot-toast calls
ToastNone == [kind |-> "none", text |-> ""]
ToastError(text) == [kind |-> "error", text |-> text]
ToastSuccess(text) == [kind |-> "success", text |-> text]

\* the file sizes Math.floor(Math.random() * 50000000) + 1000000 can give: the
\* smallest and the largest
MinFileSize == 1000000
MaxFileSize == 50999999
FileSizes == {MinFileSize, MaxFileSize}

\* for (let progress = 0; progress <= 100; progress += 10)
ProgressStart == 0
ProgressStep == 10
ProgressEnd == 100
LoopContinues(progress) == progress <= ProgressEnd

Statuses == {"pending", "processing", "completed", "failed"}
TerminalStatuses == {"completed", "failed"}

\* the validation left out
RejectsSelectionNever(params) == FALSE

\* if (selectedParameters.length === 0) { toast.error(...); return }
RejectsSelection(params) == Len(params) = 0

\* the object literal of handleExport; the id `export_${Date.now()}` is modelled by
\* the number it embeds (the template is one-to-one)
NewExportRequest(t, fmt, params, range, reg) ==
    [id |-> t, format |-> fmt, parameters |-> params, timeRange |-> range,
     region |-> reg, status |-> "pending", progress |-> ProgressStart, createdAt |-> t,
     completedAt |-> AbsentNumber, downloadUrl |-> AbsentString,
     fileSize |-> AbsentNumber]

\* the new request put last: prev => [...prev, exportRequest]
AddRequestLast(prev, req) == prev \o <<req>>

\* prev => [exportRequest, ...prev]
AddRequest(prev, req) == <<req>> \o prev

\* a tick that forgets the status: { ...req, progress }
TickUpdateProgressOnly(req, progress) == [req EXCEPT !.progress = progress]

\* { ...req, progress, status: 'processing' }
TickUpdate(req, progress) ==
    [req EXCEPT !.progress = progress, !.status = "processing"]

\* { ...req, status: 'completed', progress: 100, completedAt, downloadUrl, fileSize }
CompleteUpdate(req, t, size) ==
    [req EXCEPT !.status = "completed", !.progress = 100, !.completedAt = t,
                !.downloadUrl = "#", !.fileSize = size]

\* req.id === requestId
Targets(req, requestId) == req.id = requestId

\* prev.map(req => req.id === requestId ? { ...req, progress, status } : req)
ApplyTick(prev, requestId, progress) ==
    [i \in 1..Len(prev) |->
        IF Targets(prev[i], requestId) THEN TickUpdate(prev[i], progress) ELSE prev[i]]

\* the completion update left out
ApplyCompleteSkipped(prev, requestId, t, size) == prev

\* prev.map(req => req.id === requestId ? { ...req, status: 'completed', ... } : req)
ApplyComplete(prev, requestId, t, size) ==
    [i \in 1..Len(prev) |->
        IF Targets(prev[i], requestId) THEN CompleteUpdate(prev[i], t, size) ELSE prev[i]]

\* a call of simulateExport suspended at its await (pc "sleep"), between its
\* last tick and the completion update of the same continuation (pc "mark"),
\* or returned (pc "done")
NewSim(requestId) == [requestId |-> requestId, progress |-> ProgressStart, pc |-> "sleep"]

\* no continuation is half-way: a handler only starts when the previous one returned
Idle == \A k \in 1..Len(sims) : sims[k].pc # "mark"

\* setTimeout(resolve, 500): every timer of simulateExport has the same delay, so
\* the timers fire in the order they were set (HTML timer initialisation steps)
ArmTimer(queue, k) == Append(queue, k)

\* the time a timer of the call sims[k] can fire at: setTimeout(resolve, 500) never
\* fires in the millisecond the call was started in
FiresAt(k) == Max(now, sims[k].requestId + 1)

\* onClick={() => setIsOpen(true)}
OpenDialog ==
    /\ Idle
    /\ ~isOpen
    /\ isOpen' = TRUE
    /\ UNCHANGED <<now, toast, selectedFormat, selectedParameters, timeRange, region,
                   exportRequests, isExporting, sims, timers, feedVars, pageVars>>

\* onClick={() => setIsOpen(false)} (backdrop, X and Cancel)
CloseDialog ==
    /\ Idle
    /\ isOpen
    /\ isOpen' = FALSE
    /\ UNCHANGED <<now, toast, selectedFormat, selectedParameters, timeRange, region,
                   exportRequests, isExporting, sims, timers, feedVars, pageVars>>

\* handleParameterToggle
ToggleParameter(prev, parameterId) ==
    IF Includes(prev, parameterId) THEN FilterOut(prev, parameterId)
    ELSE prev \o <<parameterId>>

handleParameterToggle(parameterId) ==
    /\ Idle
    /\ selectedParameters' = ToggleParameter(selectedParameters, parameterId)
    /\ UNCHANGED <<now, toast, isOpen, selectedFormat, timeRange, region,
                   exportRequests, isExporting, sims, timers, feedVars, pageVars>>

\* handleExport, called with the clock reading t
handleExport(t) ==
    /\ Idle
    /\ IF RejectsSelection(selectedParameters)
       THEN /\ toast' = ToastError("Please select at least one parameter")
            /\ UNCHANGED <<now, exportVars, feedVars, pageVars>>
       ELSE /\ now' = t
            /\ isExporting' = TRUE
            /\ exportRequests' =
                   AddRequest(exportRequests,
                              NewExportRequest(t, selectedFormat, selectedParameters,
                                               timeRange, region))
            /\ isOpen' = FALSE
            /\ toast' = ToastSuccess("Export started")
            /\ sims' = Append(sims, NewSim(t))
            /\ timers' = ArmTimer(timers, Len(sims) + 1)
            /\ UNCHANGED <<selectedFormat, selectedParameters, timeRange, region, feedVars,
                           pageVars>>

\* one turn of the loop of simulateExport: the timer fires, the state update of
\* lines 153-159 runs and the loop variable advances
simulateExportTick(k) ==
    /\ Idle
    /\ sims[k].pc = "sleep"
    /\ timers # <<>> /\ Head(timers) = k
    /\ timers' = IF LoopContinues(sims[k].progress + ProgressStep)
                 THEN ArmTimer(Tail(timers), k) ELSE Tail(timers)
    /\ now' = FiresAt(k)
    /\ exportRequests' = ApplyTick(exportRequests, sims[k].requestId, sims[k].progress)
    /\ sims' = [sims EXCEPT ![k].progress = sims[k].progress + ProgressStep,
                            ![k].pc = IF LoopContinues(sims[k].progress + ProgressStep)
                                      THEN "sleep" ELSE "mark"]
    /\ UNCHANGED <<toast, isOpen, selectedFormat, selectedParameters, timeRange, region,
                   isExporting, feedVars, pageVars>>

\* the rest of the last continuation: "Mark as completed" and the toast
simulateExportComplete(k, size) ==
    /\ sims[k].pc = "mark"
    /\ exportRequests' = ApplyComplete(exportRequests, sims[k].requestId, now, size)
    /\ sims' = [sims EXCEPT ![k].pc = "done"]
    /\ toast' = ToastSuccess("Export completed!")
    /\ UNCHANGED <<now, isOpen, selectedFormat, selectedParameters, timeRange, region,
                   isExporting, timers, feedVars, pageVars>>

InitExport ==
    /\ isOpen = FALSE
    /\ selectedFormat = "csv"
    /\ selectedParameters = <<"temperature", "salinity">>
    /\ timeRange = "7d"
    /\ region = "global"
    /\ exportRequests = <<>>
    /\ isExporting = FALSE
    /\ sims = <<>>
    /\ timers = <<>>


(***************************************************************************)
(* RealTimeUpdates                                                         *)
(***************************************************************************)
\* [update, ...prev].slice(0, 50)
MaxUpdates == 50

\* useRef(null)
NullRef == 0

\* the keys of stats
StatKeys == {"totalFloats", "activeFloats", "dataPoints", "lastSync"}

\* useState({ totalFloats: 3847, activeFloats: 3621, dataPoints: 1247832, lastSync: new Date() })
InitialStats(t) ==
    [totalFloats |-> 3847, activeFloats |-> 3621, dataPoints |-> 1247832, lastSync |-> t]

\* JSON values: null, a number, or an object given by its members. A member
\* stats is undefined (absent), an object or a number.
NoStats == [t |-> "undefined"]
StatsObject(fields) == [t |-> "object", fields |-> fields]
StatsNumber(n) == [t |-> "number", num |-> n]

JsonNull == [json |-> "null"]
JsonNumber(n) == [json |-> "number", num |-> n]
JsonObject(obj) == [json |-> "object", obj |-> obj]

\* event.data, the text of a frame: a text that is no JSON, or the text of a
\* JSON value
InvalidText == [text |-> "invalid"]
TextOf(value) == [text |-> "json", value |-> value]

\* JSON.parse(event.data): throws a SyntaxError on a text that is no JSON, and
\* gives the value otherwise
JsonParseThrows(frame) == frame.text = "invalid"
JsonParse(frame) == frame.value

\* reading a property of null throws a TypeError: data.type, the first property
\* handleRealtimeUpdate reads
PropertyReadThrows(data) == data.json = "null"

\* data.type, data.message, data.status, data.data: undefined when data is no
\* object or has no such member
StringMember(data, name) ==
    IF data.json = "object" /\ name \in DOMAIN data.obj THEN data.obj[name]
    ELSE AbsentString

\* data.stats
StatsMember(data) ==
    IF data.json = "object" /\ "stats" \in DOMAIN data.obj THEN data.obj["stats"]
    ELSE NoStats

\* value || fallback, for strings: undefined and '' are falsy
OrElse(value, fallback) == IF value \in {AbsentString, ""} THEN fallback ELSE value

\* if (data.stats): undefined and 0 are falsy, an object is truthy
Truthy(member) ==
    \/ member.t = "object"
    \/ member.t = "number" /\ member.num # 0

\* the own enumerable properties { ...data.stats } copies: a number has none
OwnProperties(member) == IF member.t = "object" THEN member.fields ELSE <<>>

\* the merge replaced by the update: setStats(data.stats)
ReplaceStats(prev, member) == OwnProperties(member)

\* prev => ({ ...prev, ...data.stats })
MergeStats(prev, member) ==
    LET upd == OwnProperties(member)
    IN  [k \in DOMAIN prev \cup DOMAIN upd |-> IF k \in DOMAIN upd THEN upd[k] ELSE prev[k]]

\* the object literal of handleRealtimeUpdate; the id `update_${Date.now()}` is
\* modelled by the number it embeds
NewUpdate(data, t) ==
    [id |-> t,
     type |-> OrElse(StringMember(data, "type"), "data_sync"),
     message |-> OrElse(StringMember(data, "message"), "Data updated"),
     timestamp |-> t,
     status |-> OrElse(StringMember(data, "status"), "success"),
     data |-> StringMember(data, "data")]

\* Array.prototype.slice(0, n)
SliceFromStart(arr, n) == SubSeq(arr, 1, IF Len(arr) < n THEN Len(arr) ELSE n)

\* the history cut at the wrong end: [update, ...prev].slice(-50)
AddUpdateKeepOldest(prev, update) ==
    LET all == <<update>> \o prev
    IN  SubSeq(all, IF Len(all) > MaxUpdates THEN Len(all) - MaxUpdates + 1 ELSE 1, Len(all))

\* the new event put last: [...prev, update].slice(0, 50)
AddUpdateLast(prev, update) == SliceFromStart(prev \o <<update>>, MaxUpdates)

\* prev => [update, ...prev].slice(0, 50)
AddUpdate(prev, update) == SliceFromStart(<<update>> \o prev, MaxUpdates)

\* the toast of handleRealtimeUpdate: none for a status other than the three
UpdateToast(update) ==
    IF update.status = "success" THEN ToastSuccess(update.message)
    ELSE IF update.status = "warning" THEN [kind |-> "warning", text |-> update.message]
    ELSE IF update.status = "error" THEN ToastError(update.message)
    ELSE toast

\* a state update of a component React has unmounted is dropped
SetState(current, value) == IF unmounted THEN current ELSE value

\* a handler that stamps the counters on every event:
\* setStats(prev => ({ ...prev, ...data.stats, lastSync: new Date() }))
handleRealtimeUpdateStampsSync(data, t) ==
    LET update == NewUpdate(data, t)
    IN  /\ now' = t
        /\ updates' = SetState(updates, AddUpdate(updates, update))
        /\ lastUpdate' = SetState(lastUpdate, t)
        /\ stats' = SetState(stats, [MergeStats(stats, StatsMember(data))
                                        EXCEPT !["lastSync"] = t])
        /\ toast' = UpdateToast(update)

\* handleRealtimeUpdate on the parsed frame, the clock reading t
handleRealtimeUpdate(data, t) ==
    LET update == NewUpdate(data, t)
    IN  /\ now' = t
        /\ updates' = SetState(updates, AddUpdate(updates, update))
        /\ lastUpdate' = SetState(lastUpdate, t)
        /\ stats' = IF Truthy(StatsMember(data))
                    THEN SetState(stats, MergeStats(stats, StatsMember(data)))
                    ELSE stats
        /\ toast' = UpdateToast(update)

\* the statement of onmessage that throws on the frame, if any: JSON.parse, or
\* the call of handleRealtimeUpdate (before its first state update)
ThrowingStatement(frame) ==
    IF JsonParseThrows(frame) THEN "JSON.parse"
    ELSE IF PropertyReadThrows(JsonParse(frame)) THEN "handleRealtimeUpdate"
    ELSE "none"

\* a try block that holds the parse alone
InsideTryParseOnly(statement) == statement = "JSON.parse"

\* try { const data = JSON.parse(event.data); handleRealtimeUpdate(data) }
InsideTry(statement) == statement \in {"JSON.parse", "handleRealtimeUpdate"}

\* a catch clause that takes a frame it cannot handle for a lost connection:
\* catch (error) { console.error(...); setIsConnected(false) }
MessageConnectionDropped(statement) ==
    /\ isConnected' = IF statement # "none" THEN SetState(isConnected, FALSE)
                      ELSE isConnected
    /\ UNCHANGED <<wsRef, reconnectTimeoutRef, sockets, reconnectTimers, timersSet>>

\* ws.onmessage, its catch clause and handleRealtimeUpdate call neither
\* setIsConnected, setTimeout, clearTimeout nor close(), and assign no ref
MessageConnection(statement) ==
    UNCHANGED <<isConnected, wsRef, reconnectTimeoutRef, sockets, reconnectTimers,
                timersSet>>

\* ws.onmessage of socket s on a frame, the clock reading t
onmessage(s, frame, t) ==
    /\ s \in 1..Len(sockets)
    /\ sockets[s] = "OPEN"
    /\ MessageConnection(ThrowingStatement(frame))
    /\ IF ThrowingStatement(frame) # "none"
       THEN /\ IF InsideTry(ThrowingStatement(frame))
               THEN \* catch (error) { console.error(...) }
                    /\ consoleError' = "Error parsing WebSocket message:"
                    /\ UNCHANGED uncaught
               ELSE /\ uncaught' = TRUE
                    /\ UNCHANGED consoleError
            /\ UNCHANGED <<now, toast, updates, lastUpdate, stats>>
       ELSE /\ handleRealtimeUpdate(JsonParse(frame), t)
            /\ UNCHANGED <<consoleError, uncaught>>
    /\ UNCHANGED <<mounted, unmounted, wsBlocked, exportVars, pageVars>>

\* connectWebSocket: the changes to isConnected, sockets, wsRef and the console
connectWebSocket ==
    IF wsBlocked
    THEN \* catch (error) { console.error(...); setIsConnected(false) }
         /\ consoleError' = "Error connecting to WebSocket:"
         /\ isConnected' = SetState(isConnected, FALSE)
         /\ UNCHANGED <<sockets, wsRef>>
    ELSE /\ sockets' = Append(sockets, "CONNECTING")
         /\ wsRef' = Len(sockets) + 1
         /\ UNCHANGED <<isConnected, consoleError>>

\* the effects after the first render: connectWebSocket() and setMounted(true)
Mount ==
    /\ ~mounted /\ ~unmounted
    /\ connectWebSocket
    /\ mounted' = TRUE
    /\ UNCHANGED <<now, toast, updates, lastUpdate, stats, reconnectTimeoutRef, unmounted,
                   reconnectTimers, timersSet, wsBlocked, uncaught, exportVars, pageVars>>

\* WebSocket.close(): a socket that is connecting or open starts closing
CloseSocket(all, s) ==
    IF all[s] \in {"CONNECTING", "OPEN"} THEN [all EXCEPT ![s] = "CLOSING"] ELSE all

\* the cleanup of the effect
Unmount ==
    /\ mounted /\ ~unmounted
    /\ sockets' = IF wsRef # NullRef THEN CloseSocket(sockets, wsRef) ELSE sockets
    /\ reconnectTimers' = IF reconnectTimeoutRef # NullRef
                          THEN reconnectTimers \ {reconnectTimeoutRef}
                          ELSE reconnectTimers
    /\ unmounted' = TRUE
    /\ UNCHANGED <<now, toast, isConnected, updates, lastUpdate, stats, wsRef,
                   reconnectTimeoutRef, mounted, timersSet, wsBlocked, consoleError,
                   uncaught, exportVars, pageVars>>

\* the Refresh button: onClick={() => connectWebSocket()}
Refresh ==
    /\ mounted /\ ~unmounted
    /\ connectWebSocket
    /\ UNCHANGED <<now, toast, updates, lastUpdate, stats, reconnectTimeoutRef, mounted,
                   unmounted, reconnectTimers, timersSet, wsBlocked, uncaught, exportVars,
                   pageVars>>

\* ws.onopen
onopen(s) ==
    /\ s \in 1..Len(sockets)
    /\ sockets[s] = "CONNECTING"
    /\ sockets' = [sockets EXCEPT ![s] = "OPEN"]
    /\ isConnected' = SetState(isConnected, TRUE)
    /\ toast' = ToastSuccess("Connected to real-time updates")
    /\ UNCHANGED <<now, updates, lastUpdate, stats, wsRef, reconnectTimeoutRef, mounted,
                   unmounted, reconnectTimers, timersSet, wsBlocked, consoleError,
                   uncaught, exportVars, pageVars>>

\* The connection of socket s ends: the browser sets readyState to CLOSED and, in
\* one task, fires error (when the connection failed) and then close. ws.onerror
\* and ws.onclose both call setIsConnected(false); ws.onclose sets the timer.
\* A connection that never opened ends as a failure.
onclose(s, failed) ==
    /\ s \in 1..Len(sockets)
    /\ sockets[s] \in {"CONNECTING", "OPEN", "CLOSING"}
    /\ sockets[s] = "CONNECTING" => failed
    /\ sockets' = [sockets EXCEPT ![s] = "CLOSED"]
    /\ isConnected' = SetState(isConnected, FALSE)
    /\ toast' = ToastError("Disconnected from real-time updates")
    /\ timersSet' = timersSet + 1
    /\ reconnectTimeoutRef' = timersSet + 1
    /\ reconnectTimers' = reconnectTimers \cup {timersSet + 1}
    /\ consoleError' = IF failed THEN "WebSocket error:" ELSE consoleError
    /\ UNCHANGED <<now, updates, lastUpdate, stats, wsRef, mounted, unmounted, wsBlocked,
                   uncaught, exportVars, pageVars>>

\* the callback of setTimeout(() => { connectWebSocket() }, 5000)
reconnect(h) ==
    /\ h \in reconnectTimers
    /\ reconnectTimers' = reconnectTimers \ {h}
    /\ connectWebSocket
    /\ UNCHANGED <<now, toast, updates, lastUpdate, stats, reconnectTimeoutRef, mounted,
                   unmounted, timersSet, wsBlocked, uncaught, exportVars, pageVars>>

InitFeed ==
    /\ isConnected = TRUE
    /\ updates = <<>>
    /\ lastUpdate = 0
    /\ stats = InitialStats(0)
    /\ wsRef = NullRef
    /\ reconnectTimeoutRef = NullRef
    /\ mounted = FALSE
    /\ unmounted = FALSE
    /\ sockets = <<>>
    /\ reconnectTimers = {}
    /\ timersSet = 0
    /\ consoleError = ""
    /\ uncaught = FALSE

(***************************************************************************)
(* DataChart                                                               *)
(***************************************************************************)
\* the props DataVisualization renders DataChart with
ChartInputs ==
    {[type |-> "temperature", timeRange |-> "7d"],
     [type |-> "salinity", timeRange |-> "7d"],
     [type |-> "salinity", timeRange |-> "30d"]}

\* the figure the server plots for a parameter and a time range: one point, or none
FigureFor(props) ==
    [x |-> <<props.timeRange>>, y |-> <<IF props.type = "salinity" THEN 35 ELSE 25>>]
EmptyFigure == [x |-> <<>>, y |-> <<>>]

\* how fetch(url) settles: it rejects, or resolves to a response with res.ok
NetworkError == [settled |-> "rejected"]
Response(ok) == [settled |-> "resolved", ok |-> ok]
FetchOutcomes == {NetworkError, Response(FALSE), Response(TRUE)}

\* how res.json() settles: it rejects on a body that is no JSON, or resolves to
\* the payload with its figure
InvalidBody == [settled |-> "rejected"]
Payload(fig) == [settled |-> "resolved", plotly_json |-> fig]
BodiesFor(props) == {InvalidBody, Payload(FigureFor(props)), Payload(EmptyFigure)}

\* x.map((t, i) => ({ time: String(t), value: Number(y[i] ?? 0) }))
ToSeries(fig) ==
    [i \in 1..Len(fig.x) |->
        [time |-> fig.x[i], value |-> IF i <= Len(fig.y) THEN fig.y[i] ELSE 0]]

\* a call of fetchSeries with its own flag aborted, suspended at await fetch (pc
\* "fetch") or at await res.json() (pc "json"), or returned (pc "done")
NewFetch(props) == [props |-> props, aborted |-> FALSE, pc |-> "fetch"]

\* return () => { aborted = true }: the cleanup of the latest run of the effect
AbortLatest(calls) ==
    IF Len(calls) = 0 THEN calls ELSE [calls EXCEPT ![Len(calls)].aborted = TRUE]

\* catch (e) { setData([]) }
CatchData(call) == <<>>

\* finally { if (!aborted) setIsLoading(false) }
FinallyLoading(call) == IF call.aborted THEN chartIsLoading ELSE FALSE

\* the effect of DataChart, run after a render with new props (and after the
\* first render): the cleanup of the run before it, then fetchSeries() up to
\* await fetch(url)
ChartEffect(props) ==
    /\ chartProps' = props
    /\ fetches' = Append(AbortLatest(fetches), NewFetch(props))
    /\ chartIsLoading' = TRUE
    /\ UNCHANGED <<chartData, now, toast, exportVars, feedVars, chatVars, playVars>>

\* the first render of DataChart
ChartMount(props) ==
    /\ Len(fetches) = 0
    /\ ChartEffect(props)

\* a render of DataChart with another type or timeRange
ChartRender(props) ==
    /\ Len(fetches) > 0
    /\ props # chartProps
    /\ ChartEffect(props)

\* the continuation of fetchSeries after await fetch(url)
fetchSeriesResponse(k, res) ==
    /\ k \in 1..Len(fetches)
    /\ fetches[k].pc = "fetch"
    /\ IF res.settled = "rejected" \/ ~res.ok
       THEN \* fetch rejected, or throw new Error('Failed to load chart')
            /\ chartData' = CatchData(fetches[k])
            /\ chartIsLoading' = FinallyLoading(fetches[k])
            /\ fetches' = [fetches EXCEPT ![k].pc = "done"]
       ELSE /\ fetches' = [fetches EXCEPT ![k].pc = "json"]
            /\ UNCHANGED <<chartData, chartIsLoading>>
    /\ UNCHANGED <<chartProps, now, toast, exportVars, feedVars, chatVars, playVars>>

\* the continuation of fetchSeries after await res.json()
fetchSeriesPayload(k, body) ==
    /\ k \in 1..Len(fetches)
    /\ fetches[k].pc = "json"
    /\ fetches' = [fetches EXCEPT ![k].pc = "done"]
    /\ IF body.settled = "rejected"
       THEN /\ chartData' = CatchData(fetches[k])
            /\ chartIsLoading' = FinallyLoading(fetches[k])
       ELSE IF fetches[k].aborted
       THEN \* if (aborted) return
            UNCHANGED <<chartData, chartIsLoading>>
       ELSE /\ chartData' = ToSeries(body.plotly_json)
            /\ chartIsLoading' = FinallyLoading(fetches[k])
    /\ UNCHANGED <<chartProps, now, toast, exportVars, feedVars, chatVars, playVars>>

InitChart ==
    /\ chartProps = [type |-> "temperature", timeRange |-> "7d"]
    /\ chartData = <<>>
    /\ chartIsLoading = TRUE
    /\ fetches = <<>>

(***************************************************************************)
(* ChatInterface                                                           *)
(***************************************************************************)
\* a text is the sequence of its characters
WhitespaceChars == {" ", "\t", "\n"}

\* String.prototype.trimStart and trimEnd
RECURSIVE TrimStart(_)
TrimStart(text) ==
    IF Len(text) > 0 /\ Head(text) \in WhitespaceChars THEN TrimStart(Tail(text)) ELSE text

RECURSIVE TrimEnd(_)
TrimEnd(text) ==
    IF Len(text) > 0 /\ text[Len(text)] \in WhitespaceChars
    THEN TrimEnd(SubSeq(text, 1, Len(text) - 1))
    ELSE text

\* String.prototype.trim
Trim(text) == TrimEnd(TrimStart(text))

\* the greeting useState starts the list with; its text is abbreviated
Greeting ==
    [id |-> 1, type |-> "assistant", content |-> <<"H", "e", "l", "l", "o", "!">>,
     timestamp |-> 0]

\* a guard that forgets the request in flight: if (!input.trim()) return
SendRejectedBlankOnly(text, loading) == Len(Trim(text)) = 0

\* if (!input.trim() || isLoading) return
SendRejected(text, loading) == Len(Trim(text)) = 0 \/ loading

\* the object literal userMessage; the id Date.now().toString() is modelled by
\* the number it prints
UserMessage(text, t) == [id |-> t, type |-> "user", content |-> text, timestamp |-> t]

\* the payload of the chat endpoint: null, or an object with the members
\* response (a text, '' included) and data_points, either of which may be missing
NullData == [json |-> "null"]
ChatData(members) == [json |-> "object", obj |-> members]

\* data.response || 'I could not find relevant data.'
ResponseText(data) ==
    IF "response" \in DOMAIN data.obj /\ Len(data.obj["response"]) > 0
    THEN data.obj["response"]
    ELSE <<"n", "o", " ", "d", "a", "t", "a">>

\* data.data_points ?? 0
DataPoints(data) == IF "data_points" \in DOMAIN data.obj THEN data.obj["data_points"] ELSE 0

\* the object literal assistantMessage, its id being (Date.now() + 1).toString()
AssistantMessage(data, t) ==
    [id |-> t + 1, type |-> "assistant", content |-> ResponseText(data), timestamp |-> t,
     metadata |-> [queryType |-> "data_query", dataPoints |-> DataPoints(data),
                   visualization |-> "chart"]]

\* the resets at the end of the try block instead of in finally
FinallyFlagsTryOnly(loading, typing, failed) ==
    IF failed THEN [isLoading |-> loading, isTyping |-> typing]
    ELSE [isLoading |-> FALSE, isTyping |-> FALSE]

\* finally { setIsLoading(false); setIsTyping(false) }
FinallyFlags(loading, typing, failed) == [isLoading |-> FALSE, isTyping |-> FALSE]

\* a call of handleSendMessage that passed the guard, suspended at await fetch
\* (pc "fetch") or await res.json() (pc "json"), or returned (pc "done")
NewChatRequest(text) == [query |-> text, pc |-> "fetch"]

\* onChange={(e) => setInput(e.target.value)} and handleExampleClick
onChange(text) ==
    /\ input' = text
    /\ UNCHANGED <<messages, isLoading, isTyping, chatRequests, now, toast, exportVars,
                   feedVars, chartVars, playVars>>

\* handleSendMessage up to await fetch, the clock reading t
handleSendMessage(t) ==
    IF SendRejected(input, isLoading)
    THEN UNCHANGED vars
    ELSE /\ now' = t
         /\ messages' = Append(messages, UserMessage(input, t))
         /\ input' = <<>>
         /\ isLoading' = TRUE
         /\ isTyping' = TRUE
         /\ chatRequests' = Append(chatRequests, NewChatRequest(input))
         /\ UNCHANGED <<toast, exportVars, feedVars, chartVars, playVars>>

\* the catch and finally clauses of handleSendMessage
SendFailed ==
    /\ toast' = ToastError("Failed to send message. Please try again.")
    /\ isLoading' = FinallyFlags(isLoading, isTyping, TRUE).isLoading
    /\ isTyping' = FinallyFlags(isLoading, isTyping, TRUE).isTyping
    /\ UNCHANGED <<messages, now>>

\* the continuation of handleSendMessage after await fetch
handleSendMessageResponse(k, res) ==
    /\ k \in 1..Len(chatRequests)
    /\ chatRequests[k].pc = "fetch"
    /\ IF res.settled = "rejected" \/ ~res.ok
       THEN \* fetch rejected, or throw new Error('Failed')
            /\ SendFailed
            /\ chatRequests' = [chatRequests EXCEPT ![k].pc = "done"]
       ELSE /\ chatRequests' = [chatRequests EXCEPT ![k].pc = "json"]
            /\ UNCHANGED <<messages, isLoading, isTyping, now, toast>>
    /\ UNCHANGED <<input, exportVars, feedVars, chartVars, playVars>>

\* the continuation of handleSendMessage after await res.json(), the clock
\* reading t: res.json() rejects, or data.response throws on null, or the
\* answer is added
handleSendMessageData(k, body, t) ==
    /\ k \in 1..Len(chatRequests)
    /\ chatRequests[k].pc = "json"
    /\ chatRequests' = [chatRequests EXCEPT ![k].pc = "done"]
    /\ IF body.settled = "rejected" \/ body.data.json = "null"
       THEN SendFailed
       ELSE /\ now' = t
            /\ messages' = Append(messages, AssistantMessage(body.data, t))
            /\ isLoading' = FinallyFlags(isLoading, isTyping, FALSE).isLoading
            /\ isTyping' = FinallyFlags(isLoading, isTyping, FALSE).isTyping
            /\ UNCHANGED toast
    /\ UNCHANGED <<input, exportVars, feedVars, chartVars, playVars>>

InitChat ==
    /\ messages = <<Greeting>>
    /\ input = <<>>
    /\ isLoading = FALSE
    /\ isTyping = FALSE
    /\ chatRequests = <<>>

(***************************************************************************)
(* DataVisualization: the playback animation                               *)
(***************************************************************************)
\* the ids of parameters, in the order of the array
Parameters == <<"temperature", "salinity", "oxygen", "pressure", "current">>

\* parameters.findIndex(p => p.id === id): the 0-based index, or -1
FindIndex(id) ==
    IF \E i \in 1..Len(Parameters) : Parameters[i] = id
    THEN (CHOOSE i \in 1..Len(Parameters) :
              Parameters[i] = id /\ \A j \in 1..(i - 1) : Parameters[j] # id) - 1
    ELSE -1

\* parameters[(idx + 1) % parameters.length].id
NextParameter(id) == Parameters[((FindIndex(id) + 1) % Len(Parameters)) + 1]

\* the timer state the effect works on: playTimerRef.current and the active
\* intervals, each with the selectedParameter its cycleFn has captured
TimerState(ref, active) == [ref |-> ref, active |-> active]

\* a clear that forgets the timer itself: if (ref.current) { ref.current = null }
ClearTimerRefOnly(st) == TimerState(NullRef, st.active)

\* if (playTimerRef.current) { clearInterval(playTimerRef.current); playTimerRef.current = null }
ClearTimer(st) ==
    IF st.ref # NullRef
    THEN TimerState(NullRef, {i \in st.active : i.handle # st.ref})
    ELSE st

\* the cleanup the previous run of the effect returned: it returned one only
\* when it ran with isPlaying true
EffectCleanup(wasPlaying, st) == IF wasPlaying THEN ClearTimer(st) ELSE st

\* the body of the effect, run with the new isPlaying and selectedParameter; the
\* handle setInterval returns is fresh
EffectBody(playing, id, st, handle) ==
    IF ~playing THEN ClearTimer(st)
    ELSE TimerState(handle, st.active \cup {[handle |-> handle, selectedParameter |-> id]})

\* a render in which isPlaying or selectedParameter has changed, with its
\* effects: the cleanup of the previous run, then the body
PlaybackRender(playing, id) ==
    LET st == EffectBody(playing, id,
                         EffectCleanup(isPlaying, TimerState(playTimerRef, intervals)),
                         intervalsSet + 1)
    IN  /\ isPlaying' = playing
        /\ selectedParameter' = id
        /\ playTimerRef' = st.ref
        /\ intervals' = st.active
        /\ intervalsSet' = IF playing THEN intervalsSet + 1 ELSE intervalsSet
        /\ UNCHANGED <<now, toast, exportVars, feedVars, chartVars, chatVars>>

\* onClick={() => setIsPlaying(!isPlaying)}
togglePlay == PlaybackRender(~isPlaying, selectedParameter)

\* setSelectedParameter(id): React renders nothing when the state is unchanged
setSelectedParameter(id) ==
    IF id = selectedParameter THEN UNCHANGED vars
    ELSE PlaybackRender(isPlaying, id)

\* the interval i fires: cycleFn with the selectedParameter it has captured
cycleFn(i) ==
    /\ i \in intervals
    /\ setSelectedParameter(NextParameter(i.selectedParameter))

InitPlayback ==
    /\ selectedParameter = "temperature"
    /\ isPlaying = FALSE
    /\ playTimerRef = NullRef
    /\ intervals = {}
    /\ intervalsSet = 0

\* both components as constructed, on a page that may open the WebSocket
Init ==
    /\ now = 0
    /\ toast = ToastNone
    /\ InitExport
    /\ InitFeed
    /\ wsBlocked = FALSE
    /\ InitChart
    /\ InitChat
    /\ InitPlayback

\* the same, on any page
InitAnyPage ==
    /\ now = 0
    /\ toast = ToastNone
    /\ InitExport
    /\ InitFeed
    /\ wsBlocked \in BOOLEAN
    /\ InitChart
    /\ InitChat
    /\ InitPlayback

\* handleExport is the submit operation of the tracker: it is explored for every
\* state it can be called in, the states in which the Start Export button is
\* disabled included, up to so many accepted submissions
Accepts(limit) == RejectsSelection(selectedParameters) \/ Len(exportRequests) < limit
Submit == Accepts(MaxRequests) /\ \E t \in ClockReadings : handleExport(t)
SubmitEdited == Accepts(MaxDialogRequests) /\ \E t \in ClockReadings : handleExport(t)
Toggle == \E p \in ParameterIds : handleParameterToggle(p)
Tick == \E k \in 1..Len(sims) : simulateExportTick(k)
Complete == \E k \in 1..Len(sims) : \E size \in FileSizes : simulateExportComplete(k, size)

\* the export tracker with the selection left as constructed
NextExport ==
    \/ OpenDialog
    \/ CloseDialog
    \/ Submit
    \/ Tick
    \/ Complete

\* the export dialog with its parameter buttons
NextDialog ==
    \/ OpenDialog
    \/ CloseDialog
    \/ Toggle
    \/ SubmitEdited
    \/ Tick
    \/ Complete

SpecExport == Init /\ [][NextExport]_vars
SpecDialog == Init /\ [][NextDialog]_vars

\* timers fire and continuations run: the event loop starves no simulateExport call
SpecExportFair == SpecExport /\ WF_vars(Tick) /\ WF_vars(Complete)

\* the frames the server sends
EmptyObject == [name \in {} |-> ""]
ServerMessages ==
    {InvalidText, TextOf(JsonNull), TextOf(JsonNumber(5)), TextOf(JsonObject(EmptyObject)),
     TextOf(JsonObject([type |-> "float_update", message |-> "Float 2903 surfaced",
                        status |-> "warning", data |-> "profile"])),
     TextOf(JsonObject([type |-> "system_alert", status |-> "error",
                        stats |-> StatsObject([activeFloats |-> 10])])),
     TextOf(JsonObject([stats |-> StatsObject([totalFloats |-> 20, dataPoints |-> 7])])),
     TextOf(JsonObject([type |-> "", message |-> "", status |-> "info",
                        stats |-> StatsNumber(5)]))}

\* events added to the history while frames of every kind arrive at any time
MaxFeedLen == 2
\* frames explored after the history has filled
MaxOverflow == 2
\* WebSocket objects explored
MaxSockets == 3

Open == \E s \in 1..Len(sockets) : onopen(s)

\* frames of every kind, two of them possibly within one millisecond
Receive ==
    \E s \in 1..Len(sockets) : \E frame \in ServerMessages : \E t \in ClockReadings :
        /\ ThrowingStatement(frame) # "none" \/ Len(updates) < MaxFeedLen
        /\ onmessage(s, frame, t)

\* a frame every millisecond: empty objects until the history is one short of its
\* capacity, frames of every kind from then on
SteadyFrames ==
    IF Len(updates) < MaxUpdates - 1 THEN {TextOf(JsonObject(EmptyObject))}
    ELSE ServerMessages

ReceiveSteady ==
    \E s \in 1..Len(sockets) : \E frame \in SteadyFrames :
        /\ now < MaxUpdates + MaxOverflow
        /\ onmessage(s, frame, now + 1)

\* the callers of connectWebSocket, limited to so many sockets
CanConnect == wsBlocked \/ Len(sockets) < MaxSockets
ClickRefresh == CanConnect /\ Refresh
TimerFires == CanConnect /\ \E h \in reconnectTimers : reconnect(h)
Close == \E s \in 1..Len(sockets) : \E failed \in BOOLEAN : onclose(s, failed)

\* the feed on one open connection
NextFeedMessages ==
    \/ Mount
    \/ Open
    \/ Receive

\* the feed on one open connection, until the history overflows
NextFeedHistory ==
    \/ Mount
    \/ Open
    \/ ReceiveSteady

\* the life of the connection
NextFeedConnection ==
    \/ Mount
    \/ ClickRefresh
    \/ Open
    \/ Close
    \/ TimerFires
    \/ Unmount

\* frames arriving during the life of the connection, one every millisecond
SessionFrames ==
    {InvalidText, TextOf(JsonNull), TextOf(JsonObject(EmptyObject)),
     TextOf(JsonObject([type |-> "system_alert", status |-> "error",
                        stats |-> StatsObject([activeFloats |-> 10])]))}

ReceiveInSession ==
    \E s \in 1..Len(sockets) : \E frame \in SessionFrames :
        /\ ThrowingStatement(frame) # "none" \/ Len(updates) < MaxFeedLen
        /\ onmessage(s, frame, now + 1)

\* the life of the connection of a mounted component, with its traffic
NextFeedSession ==
    \/ Mount
    \/ ClickRefresh
    \/ Open
    \/ Close
    \/ TimerFires
    \/ ReceiveInSession

SpecFeedMessages == Init /\ [][NextFeedMessages]_vars
SpecFeedSession == Init /\ [][NextFeedSession]_vars

\* runs of the effect of DataChart explored
MaxFetches == 3

\* DataChart rendered with the initial props of DataVisualization, then with others
MountChart == ChartMount(chartProps)
RenderChart == Len(fetches) < MaxFetches /\ \E props \in ChartInputs : ChartRender(props)
ResponseArrives ==
    \E k \in 1..Len(fetches) : \E res \in FetchOutcomes : fetchSeriesResponse(k, res)
PayloadArrives ==
    \E k \in 1..Len(fetches) : \E body \in BodiesFor(fetches[k].props) :
        fetchSeriesPayload(k, body)

NextChart ==
    \/ MountChart
    \/ RenderChart
    \/ ResponseArrives
    \/ PayloadArrives

SpecChart == Init /\ [][NextChart]_vars

\* messages sent in one conversation
MaxChatRequests == 2

\* what the user types: nothing, blanks, a question, a question with blanks around
ChatTexts == {<<>>, <<" ", "\n">>, <<"h", "i">>, <<" ", "h", "i", " ">>}

\* the bodies of the chat endpoint
ChatBodies ==
    {InvalidBody,
     [settled |-> "resolved", data |-> NullData],
     [settled |-> "resolved", data |-> ChatData([response |-> <<"o", "k">>, data_points |-> 7])],
     [settled |-> "resolved", data |-> ChatData([response |-> <<>>])]}

Type == \E text \in ChatTexts : onChange(text)
Send ==
    /\ SendRejected(input, isLoading) \/ Len(chatRequests) < MaxChatRequests
    /\ \E t \in ClockReadings : handleSendMessage(t)
ChatResponse ==
    \E k \in 1..Len(chatRequests) : \E res \in FetchOutcomes : handleSendMessageResponse(k, res)
ChatAnswer ==
    \E k \in 1..Len(chatRequests) : \E body \in ChatBodies : \E t \in ClockReadings :
        handleSendMessageData(k, body, t)

NextChat ==
    \/ Type
    \/ Send
    \/ ChatResponse
    \/ ChatAnswer

SpecChat == Init /\ [][NextChat]_vars

\* setInterval calls explored
MaxIntervals == 12

\* the playback controls of DataVisualization and its timer
CanSetInterval == intervalsSet < MaxIntervals
ClickPlay == (isPlaying \/ CanSetInterval) /\ togglePlay
ClickParameter ==
    /\ ~isPlaying \/ CanSetInterval
    /\ \E i \in 1..Len(Parameters) : setSelectedParameter(Parameters[i])
IntervalFires == CanSetInterval /\ \E i \in intervals : cycleFn(i)

NextPlayback ==
    \/ ClickPlay
    \/ ClickParameter
    \/ IntervalFires

SpecPlayback == Init /\ [][NextPlayback]_vars
SpecFeedHistory == Init /\ [][NextFeedHistory]_vars
SpecFeedConnection == InitAnyPage /\ [][NextFeedConnection]_vars

(***************************************************************************)
(* Properties of DataExport                                                *)
(***************************************************************************)
\* the k-th request submitted (requests are only ever added at the front)
KthSubmitted(reqs, k) == reqs[Len(reqs) - k + 1]

\* what handleExport gives a request
Creation(req) == <<req.id, req.format, req.parameters, req.timeRange, req.region,
                   req.createdAt>>
\* what simulateExport gives a request
Outcome(req) == <<req.status, req.progress, req.completedAt, req.downloadUrl,
                  req.fileSize>>

\* C1: handleExport called while selectedParameters is empty reports an error and
\* changes neither exportRequests, isExporting, isOpen nor the set of running
\* simulations (none is started).
C1_EmptySelectionRejected ==
    [][(Len(selectedParameters) = 0 /\ \E t \in ClockReadings : handleExport(t))
         => /\ toast'.kind = "error"
            /\ exportRequests' = exportRequests
            /\ isExporting' = isExporting
            /\ isOpen' = isOpen
            /\ sims' = sims
            /\ timers' = timers]_vars

\* the rejection happened while a request was in the list and the dialog open
C1_Witness ==
    /\ Len(selectedParameters) = 0
    /\ toast = ToastError("Please select at least one parameter")
    /\ Len(exportRequests) = 1
    /\ isOpen

\* C2: every accepted request reaches a terminal status, and no simulateExport call
\* makes more than (ProgressEnd - ProgressStart) / ProgressStep + 1 = 11 ticks.
C2_EventuallyTerminal ==
    /\ [](\A k \in 1..Len(sims) :
            /\ sims[k].progress <= ProgressEnd + ProgressStep
            /\ sims[k].pc = "done" => sims[k].progress = ProgressEnd + ProgressStep)
    /\ \A k \in 1..MaxRequests :
          (Len(exportRequests) >= k)
            ~> (/\ Len(exportRequests) >= k
                /\ KthSubmitted(exportRequests, k).status \in TerminalStatuses)

\* every request submitted has completed
C2_Witness ==
    /\ Len(exportRequests) = MaxRequests
    /\ \A i \in 1..Len(exportRequests) : exportRequests[i].status = "completed"
    /\ \A k \in 1..Len(sims) : sims[k].pc = "done"

\* C3 as stated: every request has one of the four statuses, and its progress is
\* 100 if and only if its status is completed.
C3_ProgressHundredIffCompleted ==
    \A i \in 1..Len(exportRequests) :
        /\ exportRequests[i].status \in Statuses
        /\ exportRequests[i].progress = 100 <=> exportRequests[i].status = "completed"

\* C3 as amended: every request has one of the four statuses; a completed request
\* has progress 100; a request with progress 100 is completed, or it is processing
\* in the state the last tick produced, and then the completion update of the
\* same continuation is the next step.
C3_ProgressHundredAmended ==
    \A i \in 1..Len(exportRequests) :
        /\ exportRequests[i].status \in Statuses
        /\ exportRequests[i].status = "completed" => exportRequests[i].progress = 100
        /\ exportRequests[i].progress = 100 =>
              \/ exportRequests[i].status = "completed"
              \/ /\ exportRequests[i].status = "processing"
                 /\ \E k \in 1..Len(sims) :
                        /\ sims[k].pc = "mark"
                        /\ sims[k].requestId = exportRequests[i].id

\* a request the last tick has brought to 100 and that is not completed yet
C3_Witness ==
    \E i \in 1..Len(exportRequests) :
        /\ exportRequests[i].progress = 100
        /\ exportRequests[i].status = "processing"

\* C4: exportRequests holds exactly the requests submitted so far, the latest
\* first: the k-th simulateExport call started belongs to the k-th request from
\* the end, creation times never increase along the list, and no step removes or
\* moves a request.
C4_HistoryNewestFirst ==
    /\ [](/\ Len(exportRequests) = Len(sims)
          /\ \A k \in 1..Len(sims) :
                KthSubmitted(exportRequests, k).id = sims[k].requestId
          /\ \A i, j \in 1..Len(exportRequests) :
                i < j => exportRequests[i].createdAt >= exportRequests[j].createdAt)
    /\ [][/\ Len(exportRequests') >= Len(exportRequests)
          /\ \A k \in 1..Len(exportRequests) :
                Creation(KthSubmitted(exportRequests', k))
                    = Creation(KthSubmitted(exportRequests, k))]_vars

\* two requests submitted at different times, the later one first
C4_Witness ==
    /\ Len(exportRequests) = 2
    /\ exportRequests[1].createdAt > exportRequests[2].createdAt
    /\ exportRequests[2].status = "completed"
    /\ exportRequests[1].status = "processing"

C26_ExportingWhileActive ==
    isExporting <=> \E i \in 1..Len(exportRequests) :
                        exportRequests[i].status \in {"pending", "processing"}

(***************************************************************************)
(* Properties of RealTimeUpdates                                           *)
(***************************************************************************)
\* what is left of the history when an event is inserted: all of it, or all but
\* its last (oldest) event when it is full
Kept(history) ==
    IF Len(history) = MaxUpdates THEN SubSeq(history, 1, MaxUpdates - 1) ELSE history

\* a frame that cannot be parsed, or on which handleRealtimeUpdate fails
MalformedFrame(frame) == frame.text = "invalid" \/ frame.value.json = "null"

\* C7: updates never holds more than 50 events; handling a well-formed frame puts
\* the new event first and keeps all earlier events in their order, except that
\* the last (oldest) one is dropped when updates already held 50.
C7_HistoryBounded ==
    /\ [](Len(updates) <= MaxUpdates)
    /\ [][\A s \in 1..Len(sockets) : \A frame \in ServerMessages :
            \A t \in {now, now + 1} :
                (~MalformedFrame(frame) /\ onmessage(s, frame, t))
                  => updates' = <<NewUpdate(frame.value, t)>> \o Kept(updates)]_vars

\* the history is full, and its first two events have been evicted
C7_Witness ==
    /\ Len(updates) = MaxUpdates
    /\ updates[MaxUpdates].id = 3
    /\ updates[1].id = MaxUpdates + 2

\* C8: a frame that is no JSON, or the JSON null (handleRealtimeUpdate fails on
\* it), leaves updates and stats unchanged, and no exception leaves onmessage.
C8_MalformedIgnored ==
    [][\A s \in 1..Len(sockets) : \A frame \in ServerMessages : \A t \in ClockReadings :
          (MalformedFrame(frame) /\ onmessage(s, frame, t))
            => /\ updates' = updates
               /\ stats' = stats
               /\ lastUpdate' = lastUpdate
               /\ ~uncaught']_vars

\* a malformed frame has been handled after events and counters had arrived
C8_Witness ==
    /\ consoleError = "Error parsing WebSocket message:"
    /\ Len(updates) > 0
    /\ stats # InitialStats(0)

\* C9: once the cleanup of the effect has run, no WebSocket is constructed any
\* more.
C9_NoReconnectAfterCleanup ==
    [][unmounted => Len(sockets') = Len(sockets)]_vars

\* C10: a frame whose stats member is an object sets every counter it names to
\* its value and leaves every other counter as it was.
C10_StatsMerged ==
    [][\A s \in 1..Len(sockets) : \A frame \in ServerMessages : \A t \in ClockReadings :
          (/\ ~MalformedFrame(frame)
           /\ frame.value.json = "object"
           /\ "stats" \in DOMAIN frame.value.obj
           /\ frame.value.obj["stats"].t = "object"
           /\ onmessage(s, frame, t))
            => LET named == frame.value.obj["stats"].fields
               IN  /\ \A k \in DOMAIN named : k \in DOMAIN stats' /\ stats'[k] = named[k]
                   /\ \A k \in DOMAIN stats \ DOMAIN named :
                         k \in DOMAIN stats' /\ stats'[k] = stats[k]]_vars

\* activeFloats has been set by a frame naming it alone
C10_Witness ==
    /\ stats["activeFloats"] = 10
    /\ stats["totalFloats"] = 3847
    /\ stats["dataPoints"] = 1247832

\* the sockets that are connecting or open
LiveSockets == {s \in 1..Len(sockets) : sockets[s] \in {"CONNECTING", "OPEN"}}

\* C11: connectWebSocket called while a WebSocket is connecting or open constructs
\* no further one: at most one WebSocket is connecting or open in any state.
C11_AtMostOneSocket == Cardinality(LiveSockets) <= 1

\* a step in which a connection ends or an attempt to connect throws
ConnectionFails ==
    \/ Close
    \/ wsBlocked /\ (Mount \/ ClickRefresh \/ TimerFires)

\* C13: every loss of the connection and every failed attempt to connect, while
\* the component is mounted, leaves the state disconnected with a reconnect
\* timer pending (whose callback is the next attempt).
C13_ReconnectArmed ==
    [][(~unmounted /\ ConnectionFails)
         => /\ isConnected' = FALSE
            /\ reconnectTimers' # {}]_vars

\* C14: the component starts disconnected, and while it is mounted isConnected
\* is true only if some WebSocket has opened and has neither closed nor failed
\* since.
C14_ConnectedOnlyWhenOpen ==
    (~unmounted /\ isConnected) => \E s \in 1..Len(sockets) : sockets[s] = "OPEN"

\* C20: ws.onmessage on any frame, well-formed or not, leaves isConnected, wsRef,
\* the reconnect timer and the sockets as they were.
C20_MessageKeepsConnection ==
    [][\A s \in 1..Len(sockets) : \A frame \in ServerMessages \cup SessionFrames :
          \A t \in ClockReadings :
            onmessage(s, frame, t)
              => /\ isConnected' = isConnected
                 /\ wsRef' = wsRef
                 /\ reconnectTimeoutRef' = reconnectTimeoutRef
                 /\ reconnectTimers' = reconnectTimers
                 /\ sockets' = sockets]_vars

\* a malformed frame and a well-formed one have been handled on an open
\* connection while a reconnect timer was pending
C20_Witness ==
    /\ consoleError = "Error parsing WebSocket message:"
    /\ Len(updates) > 0
    /\ isConnected
    /\ reconnectTimers # {}
    /\ wsRef # NullRef /\ sockets[wsRef] = "OPEN"

\* the kinds and severities UpdateData declares
UpdateTypes == {"float_update", "data_sync", "system_alert"}
UpdateStatuses == {"success", "warning", "error"}

\* a frame whose stats member is an object
CarriesStats(frame) ==
    /\ ~MalformedFrame(frame)
    /\ frame.value.json = "object"
    /\ "stats" \in DOMAIN frame.value.obj
    /\ frame.value.obj["stats"].t = "object"

\* C21: the history is ordered newest-first: timestamps never increase along it,
\* and every step that changes it puts one new event first and keeps the
\* earlier events behind it in their order.
C21_FeedNewestFirst ==
    /\ [](\A i, j \in 1..Len(updates) :
            i < j => updates[i].timestamp >= updates[j].timestamp)
    /\ [][updates' # updates
            => /\ Len(updates') >= 1
               /\ updates'[1].timestamp = now'
               /\ \A i \in 2..Len(updates') : updates'[i] = updates[i - 1]]_vars

\* two events that arrived in different milliseconds, the later one first
C21_Witness ==
    /\ Len(updates) = 2
    /\ updates[1].timestamp > updates[2].timestamp

\* C22: every event of the history has a type among float_update, data_sync,
\* system_alert and a status among success, warning, error.
C22_KindAndSeverity ==
    \A i \in 1..Len(updates) :
        /\ updates[i].type \in UpdateTypes
        /\ updates[i].status \in UpdateStatuses

\* C23: a step changes stats only if it is ws.onmessage handling a frame whose
\* stats member is an object.
C23_StatsOnlyByMessage ==
    [][stats' # stats
         => \E s \in 1..Len(sockets) : \E frame \in ServerMessages \cup SessionFrames :
               \E t \in {now, now + 1} :
                   CarriesStats(frame) /\ onmessage(s, frame, t)]_vars

\* counters set by a frame survived a failed connection, a reconnect and a
\* malformed frame
C23_Witness ==
    /\ stats["activeFloats"] = 10
    /\ stats["totalFloats"] = 3847
    /\ \E s \in 1..Len(sockets) : sockets[s] = "CLOSED"
    /\ \E s \in 1..Len(sockets) : sockets[s] = "OPEN"
    /\ consoleError = "Error parsing WebSocket message:"
    /\ Len(updates) = 1

\* C25: at most one reconnect timer is pending, and reconnectTimeoutRef is its
\* handle.
C25_OneReconnectTimer ==
    /\ Cardinality(reconnectTimers) <= 1
    /\ reconnectTimers # {} => reconnectTimers = {reconnectTimeoutRef}

\* C29: any two events of the history have different ids.
C29_UniqueUpdateIds ==
    \A i, j \in 1..Len(updates) : i # j => updates[i].id # updates[j].id

(***************************************************************************)
(* Properties of DataChart                                                 *)
(***************************************************************************)
\* C24: a request whose inputs have been replaced (its effect run was cleaned
\* up) changes the data shown neither when it succeeds nor when it fails; once
\* all requests have settled the data shown is the series of the latest inputs,
\* or empty.
C24_StaleRequestIgnored ==
    /\ [][\A k \in 1..Len(fetches) :
            (/\ fetches[k].aborted
             /\ \/ \E res \in FetchOutcomes : fetchSeriesResponse(k, res)
                \/ \E body \in BodiesFor(fetches[k].props) : fetchSeriesPayload(k, body))
              => chartData' = chartData]_vars
    /\ []((Len(fetches) > 0 /\ \A k \in 1..Len(fetches) : fetches[k].pc = "done")
            => chartData \in {<<>>, ToSeries(FigureFor(chartProps))})

(***************************************************************************)
(* Properties of ChatInterface                                             *)
(***************************************************************************)
\* the handleSendMessage calls whose request has not settled
Outstanding == {k \in 1..Len(chatRequests) : chatRequests[k].pc # "done"}

\* C27: handleSendMessage called while the input is empty or blank, or while
\* isLoading, changes neither the messages nor the input and sends no request;
\* at most one request is outstanding in any state.
C27_SendGuarded ==
    /\ [](Cardinality(Outstanding) <= 1)
    /\ [][\A t \in ClockReadings :
            ((Len(Trim(input)) = 0 \/ isLoading) /\ handleSendMessage(t))
              => /\ messages' = messages
                 /\ chatRequests' = chatRequests
                 /\ input' = input]_vars

\* a question is typed while the request of an earlier one is outstanding
C27_Witness ==
    /\ isLoading
    /\ Len(Trim(input)) > 0
    /\ Cardinality(Outstanding) = 1
    /\ Len(messages) = 2

\* a step in which a chat request fails: fetch rejects, the response is not ok,
\* or the body cannot be read
ChatRequestFails ==
    \E k \in 1..Len(chatRequests) :
        \/ \E res \in {NetworkError, Response(FALSE)} : handleSendMessageResponse(k, res)
        \/ \E body \in {InvalidBody, [settled |-> "resolved", data |-> NullData]} :
               \E t \in ClockReadings : handleSendMessageData(k, body, t)

\* C28: a failing chat request leaves the messages as they are (the user's
\* message stays, no assistant message is added) and resets isLoading and
\* isTyping; no step removes or reorders messages; the question of every
\* request sent is in the list.
C28_FailureKeepsMessages ==
    /\ [][ChatRequestFails
            => /\ messages' = messages
               /\ ~isLoading'
               /\ ~isTyping']_vars
    /\ [][/\ Len(messages') >= Len(messages)
          /\ SubSeq(messages', 1, Len(messages)) = messages]_vars
    /\ [](\A k \in 1..Len(chatRequests) :
            \E i \in 1..Len(messages) :
                messages[i].type = "user" /\ messages[i].content = chatRequests[k].query)

\* after a failed request a second question has been sent
C28_Witness ==
    /\ toast = ToastError("Failed to send message. Please try again.")
    /\ Len(messages) = 3
    /\ messages[2].type = "user"
    /\ messages[3].type = "user"
    /\ isLoading

(***************************************************************************)
(* Properties of DataVisualization                                         *)
(***************************************************************************)
\* the entry after id in the parameter list, the first one after the last
Successor(id) ==
    LET pos == CHOOSE i \in 1..Len(Parameters) : Parameters[i] = id
    IN  IF pos = Len(Parameters) THEN Parameters[1] ELSE Parameters[pos + 1]

\* C30: while isPlaying exactly one interval timer is active, held by
\* playTimerRef, and none is active while it is false; a firing of the timer
\* moves selectedParameter to the next entry of the list, the first after the last.
C30_OnePlaybackTimer ==
    /\ [](IF isPlaying
          THEN /\ Cardinality(intervals) = 1
               /\ \A i \in intervals : i.handle = playTimerRef
          ELSE intervals = {} /\ playTimerRef = NullRef)
    /\ [][\A i \in intervals :
            cycleFn(i) => selectedParameter' = Successor(selectedParameter)]_vars

\* playback is running on its twelfth timer, each of the earlier ones cleared
\* by a firing, a selection or a pause, and shows the first parameter again
C30_Witness ==
    /\ isPlaying
    /\ selectedParameter = "temperature"
    /\ intervalsSet = MaxIntervals
    /\ Cardinality(intervals) = 1

====
